---- MODULE Spec2Model ----
(***************************************************************************)
(* Model of the trailer_connected_provider bootstrap (main.rs): main       *)
(* builds the server future, discovers the In-Vehicle Digital Twin service *)
(* through Chariott, registers its entity there, then drives the server    *)
(* future and finally waits for ctrl-c.                                    *)
(* The broker, the registry, the operating system (bind, SIGINT) and the   *)
(* provider's clients are the environment: their answers are drawn from    *)
(* small sets.                                                             *)
(***************************************************************************)
EXTENDS Integers, Sequences, FiniteSets, TLC

VARIABLES
    pc,           \* main's position: Idle, Discovering, Registering, Ready, WaitSignal, Completed, Failed, Panicked, Harness
    proc,         \* the process: running, exited, signaled
    exitCode,     \* exit status once proc = "exited"
    mainErr,      \* the error main returned (a Result record, NoResult while none)
    log,          \* lines written by info!/debug!
    server,       \* server_future: unpolled, listening, closed
    accepted,     \* client connections accepted by the listener
    refused,      \* client connections refused (nothing bound)
    served,       \* Get requests answered
    ctrlc,        \* TRUE once signal::ctrl_c() has installed its handler
    dpc,          \* discover_service_using_chariott: idle, connecting, calling, done
    dArgs,        \* its arguments
    dReplies,     \* the broker replies it received
    dResult,      \* its return value
    brokerConns,  \* connections opened to the broker
    brokerReqs,   \* DiscoverRequests sent to the broker
    rpc,          \* register_entity: idle, connecting, calling, done
    rArgs,        \* its arguments
    rReplies,     \* the registry replies it received (a Status each, code "Ok" on success)
    rResult,      \* its return value
    registryConns,\* connections opened to the registry
    registryReqs  \* RegisterRequests sent to the registry

mainVars == <<pc, proc, exitCode, mainErr, log, ctrlc>>
srvVars  == <<server, accepted, refused, served>>
dVars    == <<dpc, dArgs, dReplies, dResult, brokerConns, brokerReqs>>
rVars    == <<rpc, rArgs, rReplies, rResult, registryConns, registryReqs>>
vars     == <<pc, proc, exitCode, mainErr, log, ctrlc, server, accepted, refused, served,
              dpc, dArgs, dReplies, dResult, brokerConns, brokerReqs,
              rpc, rArgs, rReplies, rResult, registryConns, registryReqs>>

\* ---------------------------------------------------------------- bounds
MaxConn == 2

\* ------------------------------------------------------------- constants
GRPC_PROTOCOL == "grpc"
OPERATION_GET == "Get"
SERVICE_DISCOVERY_URI == "http://0.0.0.0:50000"
PROVIDER_AUTHORITY == "0.0.0.0:55000"
INVEHICLE_DIGITAL_TWIN_SERVICE_NAMESPACE == "sdv.ibeji"
INVEHICLE_DIGITAL_TWIN_SERVICE_NAME == "invehicle_digital_twin"
INVEHICLE_DIGITAL_TWIN_SERVICE_VERSION == "1.0"
INVEHICLE_DIGITAL_TWIN_SERVICE_COMMUNICATION_KIND == "grpc+proto"
INVEHICLE_DIGITAL_TWIN_SERVICE_COMMUNICATION_REFERENCE ==
    "https://github.com/eclipse-ibeji/ibeji/blob/main/interfaces/digital_twin/v1/digital_twin.proto"

\* trailer_v1::trailer::is_trailer_connected::{ID, NAME, DESCRIPTION}: the
\* values live in the digital_twin_model crate; they are opaque tokens here.
IS_TRAILER_CONNECTED_ID == "trailer_v1::trailer::is_trailer_connected::ID"
IS_TRAILER_CONNECTED_NAME == "trailer_v1::trailer::is_trailer_connected::NAME"
IS_TRAILER_CONNECTED_DESCRIPTION == "trailer_v1::trailer::is_trailer_connected::DESCRIPTION"

\* The two string literals passed to Status::not_found. They are plain
\* literals, not format! calls, so the braces are part of the message.
MSG_NO_SERVICE ==
    "Did not find a service in Chariott with namespace '{namespace}', name '{name}' and version {version}"
MSG_NO_MATCH ==
    "Did not find a service in Chariott with namespace '{namespace}', name '{name}' and version {version} that has communication kind '{communication_kind} and communication_reference '{communication_reference}''"

\* ------------------------------------------------- Result<_, Status>
NoResult == [state |-> "pending", value |-> "", code |-> "", message |-> ""]
Ok(v) == [state |-> "ok", value |-> v, code |-> "", message |-> ""]
Err(c, m) == [state |-> "err", value |-> "", code |-> c, message |-> m]
StatusInternal(m) == Err("Internal", m)
StatusNotFound(m) == Err("NotFound", m)
\* Display of a tonic Status: the code, the message, the details and the
\* metadata, each in its Debug form (the message quoted); the details and
\* the metadata of the statuses drawn here are empty
StatusToString(s) ==
    "status: " \o s.code \o ", message: \"" \o s.message
        \o "\", details: [], metadata: MetadataMap { headers: {} }"

\* ------------------------------------------- what the environment can do
TransportErrors == {"transport error"}
BrokerStatuses == {[code |-> "Unavailable", message |-> "broker unavailable"]}
RegistryStatuses == {[code |-> "AlreadyExists", message |-> "entity exists"],
                     [code |-> "Unavailable", message |-> "registry unavailable"]}
ServerErrors == {"server error"}
BindErrors == {"error creating server listener: address in use"}
Kinds == {INVEHICLE_DIGITAL_TWIN_SERVICE_COMMUNICATION_KIND, "rest"}
References == {INVEHICLE_DIGITAL_TWIN_SERVICE_COMMUNICATION_REFERENCE, "R"}
Uris == {"http://host:9000", "http://0.0.0.0:5010", ""}
Namespaces == {INVEHICLE_DIGITAL_TWIN_SERVICE_NAMESPACE, "ns"}
Names == {INVEHICLE_DIGITAL_TWIN_SERVICE_NAME, "twin"}
Versions == {INVEHICLE_DIGITAL_TWIN_SERVICE_VERSION, "2.0"}
\* the service of a DiscoverResponse
Services == [uri : Uris, communication_kind : Kinds, communication_reference : References]
\* Option<ServiceMetadata> as a sequence of at most one element
OptServices == {<<>>} \cup {<<s>> : s \in Services}

NoDiscoverArgs == [chariott_uri |-> "", namespace |-> "", name |-> "", version |-> "",
                   communication_kind |-> "", communication_reference |-> ""]
NoRegisterArgs == [invehicle_digital_twin_uri |-> "", provider_uri |-> ""]

\* ------------------------------------ discover_service_using_chariott
DiscoverRequestOf(args) ==
    [namespace |-> args.namespace, name |-> args.name, version |-> args.version]

\* mutant: the comparisons are inverted, a service equal in both fields is rejected
ServiceMismatchInverted(service, communication_kind, communication_reference) ==
    /\ service.communication_kind = communication_kind
    /\ service.communication_reference = communication_reference

\* the rejection test: both fields must differ for the service to be rejected
ServiceMismatch(service, communication_kind, communication_reference) ==
    /\ service.communication_kind # communication_kind
    /\ service.communication_reference # communication_reference

\* mutant: a missing service is replaced by the default one (unwrap_or_default)
\* and its empty uri returned
DiscoverOutcomeDefaultService(optService, communication_kind, communication_reference) ==
    IF optService = <<>>
    THEN Ok("")
    ELSE IF ServiceMismatch(optService[1], communication_kind, communication_reference)
         THEN StatusNotFound(MSG_NO_MATCH)
         ELSE Ok(optService[1].uri)

\* from the response's Option<service> to the function's return value
DiscoverOutcome(optService, communication_kind, communication_reference) ==
    IF optService = <<>>
    THEN StatusNotFound(MSG_NO_SERVICE)
    ELSE IF ServiceMismatch(optService[1], communication_kind, communication_reference)
         THEN StatusNotFound(MSG_NO_MATCH)
         ELSE Ok(optService[1].uri)

\* ServiceRegistryClient::connect fails: Status::internal(e.to_string())
DiscoverConnectErr ==
    /\ proc = "running" /\ dpc = "connecting"
    /\ \E e \in TransportErrors : dResult' = StatusInternal(e)
    /\ dpc' = "done"
    /\ UNCHANGED <<dArgs, dReplies, brokerConns, brokerReqs>>
    /\ UNCHANGED <<mainVars, srvVars, rVars>>

\* connect succeeds and the DiscoverRequest is sent
DiscoverConnectOk ==
    /\ proc = "running" /\ dpc = "connecting"
    /\ brokerConns' = Append(brokerConns, dArgs.chariott_uri)
    /\ brokerReqs' = Append(brokerReqs, DiscoverRequestOf(dArgs))
    /\ dpc' = "calling"
    /\ UNCHANGED <<dArgs, dReplies, dResult>>
    /\ UNCHANGED <<mainVars, srvVars, rVars>>

\* client.discover fails: Status::internal(error.to_string())
DiscoverRpcErr ==
    /\ proc = "running" /\ dpc = "calling"
    /\ \E s \in BrokerStatuses : dResult' = StatusInternal(StatusToString(s))
    /\ dpc' = "done"
    /\ UNCHANGED <<dArgs, dReplies, brokerConns, brokerReqs>>
    /\ UNCHANGED <<mainVars, srvVars, rVars>>

\* client.discover answers: the service is validated and its uri returned
DiscoverReply ==
    /\ proc = "running" /\ dpc = "calling"
    /\ \E o \in OptServices :
         /\ dReplies' = Append(dReplies, o)
         /\ dResult' = DiscoverOutcome(o, dArgs.communication_kind,
                                       dArgs.communication_reference)
    /\ dpc' = "done"
    /\ UNCHANGED <<dArgs, brokerConns, brokerReqs>>
    /\ UNCHANGED <<mainVars, srvVars, rVars>>

\* ------------------------------------------------------ register_entity
\* mutant: the endpoint's context is taken from the entity's name
EndpointInfoOfNameContext(provider_uri) ==
    [protocol |-> GRPC_PROTOCOL,
     operations |-> <<OPERATION_GET>>,
     uri |-> provider_uri,
     context |-> IS_TRAILER_CONNECTED_NAME]

EndpointInfoOf(provider_uri) ==
    [protocol |-> GRPC_PROTOCOL,
     operations |-> <<OPERATION_GET>>,
     uri |-> provider_uri,
     context |-> IS_TRAILER_CONNECTED_ID]

EntityAccessInfoOf(provider_uri) ==
    [name |-> IS_TRAILER_CONNECTED_NAME,
     id |-> IS_TRAILER_CONNECTED_ID,
     description |-> IS_TRAILER_CONNECTED_DESCRIPTION,
     endpoint_info_list |-> <<EndpointInfoOf(provider_uri)>>]

\* the descriptors register_entity has to publish
EntityList(provider_uri) == <<EntityAccessInfoOf(provider_uri)>>

\* mutant: the request is built before the descriptor is pushed to the list
RegisterRequestEmpty(provider_uri) ==
    [entity_access_info_list |-> <<>>]

RegisterRequestOf(provider_uri) ==
    [entity_access_info_list |-> EntityList(provider_uri)]

\* mutant: the channel is opened lazily, so the failed connect goes unnoticed
\* and the request is sent
RegisterConnectErrLazy ==
    /\ proc = "running" /\ rpc = "connecting"
    /\ registryReqs' = Append(registryReqs, RegisterRequestOf(rArgs.provider_uri))
    /\ rpc' = "calling"
    /\ UNCHANGED <<rArgs, rReplies, rResult, registryConns>>
    /\ UNCHANGED <<mainVars, srvVars, dVars>>

\* InvehicleDigitalTwinClient::connect fails: Status::internal(e.to_string())
RegisterConnectErr ==
    /\ proc = "running" /\ rpc = "connecting"
    /\ \E e \in TransportErrors : rResult' = StatusInternal(e)
    /\ rpc' = "done"
    /\ UNCHANGED <<rArgs, rReplies, registryConns, registryReqs>>
    /\ UNCHANGED <<mainVars, srvVars, dVars>>

\* connect succeeds and the RegisterRequest is sent
RegisterConnectOk ==
    /\ proc = "running" /\ rpc = "connecting"
    /\ registryConns' = Append(registryConns, rArgs.invehicle_digital_twin_uri)
    /\ registryReqs' = Append(registryReqs, RegisterRequestOf(rArgs.provider_uri))
    /\ rpc' = "calling"
    /\ UNCHANGED <<rArgs, rReplies, rResult>>
    /\ UNCHANGED <<mainVars, srvVars, dVars>>

\* mutant: the remote Status is wrapped the way discover wraps its errors,
\* Status::internal(error.to_string())
RegisterRpcErrWrapped ==
    /\ proc = "running" /\ rpc = "calling"
    /\ \E s \in RegistryStatuses :
         /\ rReplies' = Append(rReplies, s)
         /\ rResult' = StatusInternal(StatusToString(s))
    /\ rpc' = "done"
    /\ UNCHANGED <<rArgs, registryConns, registryReqs>>
    /\ UNCHANGED <<mainVars, srvVars, dVars>>

\* client.register fails: the remote Status is returned as it is (`?`)
RegisterRpcErr ==
    /\ proc = "running" /\ rpc = "calling"
    /\ \E s \in RegistryStatuses :
         /\ rReplies' = Append(rReplies, s)
         /\ rResult' = Err(s.code, s.message)
    /\ rpc' = "done"
    /\ UNCHANGED <<rArgs, registryConns, registryReqs>>
    /\ UNCHANGED <<mainVars, srvVars, dVars>>

\* client.register succeeds
RegisterRpcOk ==
    /\ proc = "running" /\ rpc = "calling"
    /\ rReplies' = Append(rReplies, [code |-> "Ok", message |-> ""])
    /\ rResult' = Ok("")
    /\ rpc' = "done"
    /\ UNCHANGED <<rArgs, registryConns, registryReqs>>
    /\ UNCHANGED <<mainVars, srvVars, dVars>>

\* ----------------------------------------------------------------- main
\* format!("http://{PROVIDER_AUTHORITY}")
ProviderUri == "http://" \o PROVIDER_AUTHORITY

\* PROVIDER_AUTHORITY.parse(): the socket address serve(addr) binds
ListenAddr == PROVIDER_AUTHORITY

\* main returns Err(e): the runtime prints it and the process exits with 1;
\* the server future is dropped with main's frame
ReturnErr(e) ==
    /\ pc' = "Failed"
    /\ proc' = "exited"
    /\ exitCode' = 1
    /\ mainErr' = e
    /\ server' = "closed"

\* mutant: the server future is spawned on the runtime when it is built, so
\* the address is bound and served while the bootstrap goes on
MainStartSpawnsServer ==
    /\ proc = "running" /\ pc = "Idle"
    /\ log' = log \o <<"The Provider has started.",
                       "The Provider URI is " \o ProviderUri,
                       "The HTTP server is listening on address '" \o PROVIDER_AUTHORITY \o "'">>
    /\ server' = "listening"
    /\ pc' = "Discovering"
    /\ dpc' = "connecting"
    /\ dArgs' = [chariott_uri |-> SERVICE_DISCOVERY_URI,
                 namespace |-> INVEHICLE_DIGITAL_TWIN_SERVICE_NAMESPACE,
                 name |-> INVEHICLE_DIGITAL_TWIN_SERVICE_NAME,
                 version |-> INVEHICLE_DIGITAL_TWIN_SERVICE_VERSION,
                 communication_kind |-> INVEHICLE_DIGITAL_TWIN_SERVICE_COMMUNICATION_KIND,
                 communication_reference |-> INVEHICLE_DIGITAL_TWIN_SERVICE_COMMUNICATION_REFERENCE]
    /\ UNCHANGED <<proc, exitCode, mainErr, ctrlc>>
    /\ UNCHANGED <<dReplies, dResult, brokerConns, brokerReqs>>
    /\ UNCHANGED <<accepted, refused, served, rVars>>

\* mutant: the server future is awaited before the discovery, so main serves
\* and never gets to discover_service_using_chariott
MainStartServesFirst ==
    /\ proc = "running" /\ pc = "Idle" /\ server = "unpolled"
    /\ log' = log \o <<"The Provider has started.",
                       "The Provider URI is " \o ProviderUri,
                       "The HTTP server is listening on address '" \o PROVIDER_AUTHORITY \o "'">>
    /\ server' = "listening"
    /\ UNCHANGED <<pc, proc, exitCode, mainErr, ctrlc>>
    /\ UNCHANGED <<accepted, refused, served, dVars, rVars>>

\* from the start of main to the call of discover_service_using_chariott:
\* the server future is built but not polled, so nothing is bound yet
MainStart ==
    /\ proc = "running" /\ pc = "Idle"
    /\ log' = log \o <<"The Provider has started.",
                       "The Provider URI is " \o ProviderUri,
                       "The HTTP server is listening on address '" \o PROVIDER_AUTHORITY \o "'">>
    /\ pc' = "Discovering"
    /\ dpc' = "connecting"
    /\ dArgs' = [chariott_uri |-> SERVICE_DISCOVERY_URI,
                 namespace |-> INVEHICLE_DIGITAL_TWIN_SERVICE_NAMESPACE,
                 name |-> INVEHICLE_DIGITAL_TWIN_SERVICE_NAME,
                 version |-> INVEHICLE_DIGITAL_TWIN_SERVICE_VERSION,
                 communication_kind |-> INVEHICLE_DIGITAL_TWIN_SERVICE_COMMUNICATION_KIND,
                 communication_reference |-> INVEHICLE_DIGITAL_TWIN_SERVICE_COMMUNICATION_REFERENCE]
    /\ UNCHANGED <<proc, exitCode, mainErr, ctrlc>>
    /\ UNCHANGED <<dReplies, dResult, brokerConns, brokerReqs>>
    /\ UNCHANGED <<srvVars, rVars>>

\* mutant: a failed discovery is retried
MainDiscoverErrRetry ==
    /\ proc = "running" /\ pc = "Discovering" /\ dpc = "done"
    /\ dResult.state = "err"
    /\ dpc' = "connecting"
    /\ dResult' = NoResult
    /\ UNCHANGED <<dArgs, dReplies, brokerConns, brokerReqs>>
    /\ UNCHANGED <<mainVars, srvVars, rVars>>

\* discover_service_using_chariott(..).await? with an Err
MainDiscoverErr ==
    /\ proc = "running" /\ pc = "Discovering" /\ dpc = "done"
    /\ dResult.state = "err"
    /\ ReturnErr(dResult)
    /\ UNCHANGED <<log, ctrlc, accepted, refused, served>>
    /\ UNCHANGED <<dVars, rVars>>

\* mutant: register_entity is given the discovery service's URI constant
MainDiscoverOkConstUri ==
    /\ proc = "running" /\ pc = "Discovering" /\ dpc = "done"
    /\ dResult.state = "ok"
    /\ log' = Append(log, "Sending a register request to the In-Vehicle Digital Twin Service URI "
                          \o dResult.value)
    /\ pc' = "Registering"
    /\ rpc' = "connecting"
    /\ rArgs' = [invehicle_digital_twin_uri |-> SERVICE_DISCOVERY_URI, provider_uri |-> ProviderUri]
    /\ UNCHANGED <<proc, exitCode, mainErr, ctrlc>>
    /\ UNCHANGED <<rReplies, rResult, registryConns, registryReqs>>
    /\ UNCHANGED <<srvVars, dVars>>

\* discover_service_using_chariott(..).await? with Ok(uri): register_entity is called
MainDiscoverOk ==
    /\ proc = "running" /\ pc = "Discovering" /\ dpc = "done"
    /\ dResult.state = "ok"
    /\ log' = Append(log, "Sending a register request to the In-Vehicle Digital Twin Service URI "
                          \o dResult.value)
    /\ pc' = "Registering"
    /\ rpc' = "connecting"
    /\ rArgs' = [invehicle_digital_twin_uri |-> dResult.value, provider_uri |-> ProviderUri]
    /\ UNCHANGED <<proc, exitCode, mainErr, ctrlc>>
    /\ UNCHANGED <<rReplies, rResult, registryConns, registryReqs>>
    /\ UNCHANGED <<srvVars, dVars>>

\* mutant: the registration error is dropped (no `?`) and the server started
MainRegisterErrIgnored ==
    /\ proc = "running" /\ pc = "Registering" /\ rpc = "done"
    /\ rResult.state = "err"
    /\ pc' = "Ready"
    /\ server' = "listening"
    /\ UNCHANGED <<proc, exitCode, mainErr, log, ctrlc>>
    /\ UNCHANGED <<accepted, refused, served, dVars, rVars>>

\* register_entity(..).await? with an Err
MainRegisterErr ==
    /\ proc = "running" /\ pc = "Registering" /\ rpc = "done"
    /\ rResult.state = "err"
    /\ ReturnErr(rResult)
    /\ UNCHANGED <<log, ctrlc, accepted, refused, served>>
    /\ UNCHANGED <<dVars, rVars>>

\* register_entity(..).await? with Ok, then server_future.await polled for
\* the first time in the same step: serve(addr) binds the address and serves
MainRegisterOk ==
    /\ proc = "running" /\ pc = "Registering" /\ rpc = "done"
    /\ rResult.state = "ok"
    /\ server = "unpolled"
    /\ pc' = "Ready"
    /\ server' = "listening"
    /\ UNCHANGED <<proc, exitCode, mainErr, log, ctrlc>>
    /\ UNCHANGED <<accepted, refused, served, dVars, rVars>>

\* register_entity(..).await? with Ok, then server_future.await? polled for
\* the first time in the same step: the bind fails and main returns the error
MainRegisterOkBindErr ==
    /\ proc = "running" /\ pc = "Registering" /\ rpc = "done"
    /\ rResult.state = "ok"
    /\ server = "unpolled"
    /\ \E e \in BindErrors : ReturnErr(Err("Transport", e))
    /\ UNCHANGED <<log, ctrlc, accepted, refused, served>>
    /\ UNCHANGED <<dVars, rVars>>

\* server_future.await? resolves to Err while serving
ServerError ==
    /\ proc = "running" /\ pc = "Ready" /\ server = "listening"
    /\ \E e \in ServerErrors : ReturnErr(Err("Transport", e))
    /\ UNCHANGED <<log, ctrlc, accepted, refused, served>>
    /\ UNCHANGED <<dVars, rVars>>

\* server_future.await? resolves to Ok(()): the listener is gone and
\* signal::ctrl_c() installs its handler
ServerFinish ==
    /\ proc = "running" /\ pc = "Ready" /\ server = "listening"
    /\ server' = "closed"
    /\ pc' = "WaitSignal"
    /\ ctrlc' = TRUE
    /\ UNCHANGED <<proc, exitCode, mainErr, log>>
    /\ UNCHANGED <<accepted, refused, served, dVars, rVars>>

\* server_future.await? resolves to Ok(()) and signal::ctrl_c() fails:
\* expect("Failed to listen for control-c event") panics
ServerFinishCtrlCFail ==
    /\ proc = "running" /\ pc = "Ready" /\ server = "listening"
    /\ server' = "closed"
    /\ pc' = "Panicked"
    /\ proc' = "exited"
    /\ exitCode' = 101
    /\ UNCHANGED <<mainErr, log, ctrlc>>
    /\ UNCHANGED <<accepted, refused, served, dVars, rVars>>

\* SIGINT while main awaits signal::ctrl_c(): main logs and returns Ok(())
SigIntHandled ==
    /\ proc = "running" /\ ctrlc /\ pc = "WaitSignal"
    /\ log' = Append(log, "The Provider has completed.")
    /\ pc' = "Completed"
    /\ proc' = "exited"
    /\ exitCode' = 0
    /\ UNCHANGED <<mainErr, ctrlc>>
    /\ UNCHANGED <<srvVars, dVars, rVars>>

\* SIGINT while no handler is installed (signal::ctrl_c() has not been
\* called yet): the default disposition ends the process
SigIntDefault ==
    /\ proc = "running" /\ ~ctrlc /\ pc # "Harness"
    /\ proc' = "signaled"
    /\ server' = "closed"
    /\ UNCHANGED <<pc, exitCode, mainErr, log, ctrlc>>
    /\ UNCHANGED <<accepted, refused, served, dVars, rVars>>

\* ------------------------------------------------ the provider's clients
\* a client connects while the listener is bound
ClientConnectAccepted ==
    /\ proc = "running" /\ pc # "Harness"
    /\ server = "listening"
    /\ accepted + refused < MaxConn
    /\ accepted' = accepted + 1
    /\ UNCHANGED <<mainVars, server, refused, served, dVars, rVars>>

\* a client connects while nothing is bound to the address
ClientConnectRefused ==
    /\ proc = "running" /\ pc # "Harness"
    /\ server # "listening"
    /\ accepted + refused < MaxConn
    /\ refused' = refused + 1
    /\ UNCHANGED <<mainVars, server, accepted, served, dVars, rVars>>

\* the running server answers a Get on an accepted connection
ClientGet ==
    /\ proc = "running" /\ pc # "Harness"
    /\ server = "listening"
    /\ served < accepted
    /\ served' = served + 1
    /\ UNCHANGED <<mainVars, server, accepted, refused, dVars, rVars>>

\* ------------------------------------------------------- specifications
Init ==
    /\ pc = "Idle" /\ proc = "running" /\ exitCode = 0 /\ mainErr = NoResult
    /\ log = <<>> /\ ctrlc = FALSE
    /\ server = "unpolled" /\ accepted = 0 /\ refused = 0 /\ served = 0
    /\ dpc = "idle" /\ dArgs = NoDiscoverArgs /\ dReplies = <<>> /\ dResult = NoResult
    /\ brokerConns = <<>> /\ brokerReqs = <<>>
    /\ rpc = "idle" /\ rArgs = NoRegisterArgs /\ rReplies = <<>> /\ rResult = NoResult
    /\ registryConns = <<>> /\ registryReqs = <<>>

Next ==
    \/ MainStart
    \/ DiscoverConnectErr \/ DiscoverConnectOk \/ DiscoverRpcErr \/ DiscoverReply
    \/ MainDiscoverErr \/ MainDiscoverOk
    \/ RegisterConnectErr \/ RegisterConnectOk \/ RegisterRpcErr \/ RegisterRpcOk
    \/ MainRegisterErr \/ MainRegisterOk \/ MainRegisterOkBindErr
    \/ ServerError
    \/ ServerFinish \/ ServerFinishCtrlCFail
    \/ SigIntHandled \/ SigIntDefault
    \/ ClientConnectAccepted \/ ClientConnectRefused \/ ClientGet

Spec == Init /\ [][Next]_vars

\* The runtime polls main whenever the future it awaits is ready, and every
\* remote operation (connect to the broker, discover, connect to the
\* registry, register) eventually returns a success or an error.
Fairness ==
    /\ WF_vars(MainStart)
    /\ WF_vars(DiscoverConnectErr \/ DiscoverConnectOk)
    /\ WF_vars(DiscoverRpcErr \/ DiscoverReply)
    /\ WF_vars(MainDiscoverErr \/ MainDiscoverOk)
    /\ WF_vars(RegisterConnectErr \/ RegisterConnectOk)
    /\ WF_vars(RegisterRpcErr \/ RegisterRpcOk)
    /\ WF_vars(MainRegisterErr \/ MainRegisterOk \/ MainRegisterOkBindErr)

SpecLive == Init /\ [][Next]_vars /\ Fairness

\* discover_service_using_chariott called on its own with arbitrary arguments
InitDiscover ==
    /\ pc = "Harness" /\ proc = "running" /\ exitCode = 0 /\ mainErr = NoResult
    /\ log = <<>> /\ ctrlc = FALSE
    /\ server = "unpolled" /\ accepted = 0 /\ refused = 0 /\ served = 0
    /\ dpc = "connecting"
    /\ dArgs \in [chariott_uri : {SERVICE_DISCOVERY_URI},
                  namespace : Namespaces, name : Names, version : Versions,
                  communication_kind : Kinds, communication_reference : References]
    /\ dReplies = <<>> /\ dResult = NoResult
    /\ brokerConns = <<>> /\ brokerReqs = <<>>
    /\ rpc = "idle" /\ rArgs = NoRegisterArgs /\ rReplies = <<>> /\ rResult = NoResult
    /\ registryConns = <<>> /\ registryReqs = <<>>

NextDiscover ==
    \/ DiscoverConnectErr \/ DiscoverConnectOk \/ DiscoverRpcErr \/ DiscoverReply

SpecDiscover == InitDiscover /\ [][NextDiscover]_vars

TypeOK ==
    /\ pc \in {"Idle", "Discovering", "Registering", "Ready", "WaitSignal",
               "Completed", "Failed", "Panicked", "Harness"}
    /\ proc \in {"running", "exited", "signaled"}
    /\ exitCode \in {0, 1, 101}
    /\ server \in {"unpolled", "listening", "closed"}
    /\ accepted \in 0..(MaxConn + 1) /\ refused \in 0..(MaxConn + 1)
    /\ served \in 0..accepted
    /\ dpc \in {"idle", "connecting", "calling", "done"}
    /\ rpc \in {"idle", "connecting", "calling", "done"}

\* ------------------------------------------------------------ properties
\* the broker answered with a service
ServiceReceived == dReplies # <<>> /\ dReplies[1] # <<>>
\* the broker answered without a service
NoServiceReceived == dReplies # <<>> /\ dReplies[1] = <<>>
KindMatches == dReplies[1][1].communication_kind = dArgs.communication_kind
ReferenceMatches == dReplies[1][1].communication_reference = dArgs.communication_reference

\* C1: a registration request has been sent to the registry only if the
\* service the broker returned matched both the expected communication kind
\* and the expected communication reference.
C1_RegisterOnlyAfterFullMatch ==
    registryReqs # <<>> => (ServiceReceived /\ KindMatches /\ ReferenceMatches)

\* C2: whenever the returned service differs from the expected values in the
\* communication kind or in the communication reference, discover returns a
\* NotFound error.
C2_RejectsEitherMismatch ==
    (dpc = "done" /\ ServiceReceived /\ (~KindMatches \/ ~ReferenceMatches))
        => (dResult.state = "err" /\ dResult.code = "NotFound")

\* C3: when the returned service matches both expected fields, discover
\* returns success and the value is the service's uri, unmodified.
C3_MatchReturnsUri ==
    (dpc = "done" /\ ServiceReceived /\ KindMatches /\ ReferenceMatches)
        => (dResult.state = "ok" /\ dResult.value = dReplies[1][1].uri)

C3_Witness ==
    /\ dpc = "done" /\ ServiceReceived /\ KindMatches /\ ReferenceMatches
    /\ dArgs.communication_kind = "rest" /\ dArgs.communication_reference = "R"
    /\ dReplies[1][1].uri = "http://host:9000"
    /\ dResult.value = "http://host:9000"

\* C4: when the broker's response has no service, discover returns a
\* NotFound error: the process is still running (no panic) and the result is
\* never a success.
C4_NoServiceIsNotFound ==
    (dpc = "done" /\ NoServiceReceived)
        => (dResult.state = "err" /\ dResult.code = "NotFound"
            /\ dResult.message = MSG_NO_SERVICE /\ proc = "running")

C4_Witness ==
    /\ dpc = "done" /\ NoServiceReceived
    /\ dArgs.namespace = "ns" /\ dArgs.name = "twin" /\ dArgs.version = "2.0"
    /\ dResult.code = "NotFound"

BothSucceeded == dResult.state = "ok" /\ rResult.state = "ok"

\* C5: main is at Ready, the provider serving, only when Discover and then
\* Register both returned Ok; register_entity is invoked, and the registry
\* contacted, only after Discover has returned Ok; and when both have
\* returned Ok main's next step is Ready with the provider serving, so that a
\* start with both successes never ends in Failed short of a server error
\* met while serving.
C5_ReadyIffBothSucceed ==
    /\ [](pc \in {"Ready", "WaitSignal", "Completed", "Panicked"} => BothSucceeded)
    /\ []((rpc # "idle" \/ registryConns # <<>> \/ registryReqs # <<>>)
            => (dpc = "done" /\ dResult.state = "ok"))
    /\ [][(pc # "Ready" /\ pc' = "Ready")
            => (pc = "Registering" /\ rpc = "done" /\ BothSucceeded)]_vars
    /\ [][(pc = "Registering" /\ rpc = "done" /\ BothSucceeded /\ pc' # pc)
            => (pc' = "Ready" /\ server' = "listening")]_vars
    /\ [](BothSucceeded =>
            \/ pc \in {"Registering", "Ready", "WaitSignal", "Completed", "Panicked"}
            \/ (pc = "Failed" /\ mainErr.message \in ServerErrors))

\* C6: while main awaits Discover or Register the listener is bound and
\* accepting connections.
C6_ListenerBoundBeforeDiscover ==
    (proc = "running" /\ pc \in {"Discovering", "Registering"}) => server = "listening"

\* C7: Discover and Register are each invoked at most once, each sends at
\* most one request over at most one connection, nothing is sent and no
\* call is started after either has returned an error, and Failed is never
\* left.
C7_NoRetry ==
    /\ [](/\ Len(brokerConns) <= 1 /\ Len(brokerReqs) <= 1
          /\ Len(registryConns) <= 1 /\ Len(registryReqs) <= 1)
    /\ [][(dpc # "idle" => dpc' \notin {"idle"})
          /\ (dpc' = "connecting" => dpc \in {"idle", "connecting"})
          /\ (rpc # "idle" => rpc' \notin {"idle"})
          /\ (rpc' = "connecting" => rpc \in {"idle", "connecting"})]_vars
    /\ [][(dResult.state = "err" \/ rResult.state = "err")
            => (/\ brokerConns' = brokerConns /\ brokerReqs' = brokerReqs
                /\ registryConns' = registryConns /\ registryReqs' = registryReqs
                /\ dpc' = dpc /\ rpc' = rpc)]_vars
    /\ [][pc = "Failed" => (pc' = "Failed" /\ proc' = "exited")]_vars

C7_Witness ==
    /\ pc = "Failed" /\ proc = "exited"
    /\ dResult.state = "err" /\ dResult.code = "NotFound"
    /\ Len(brokerReqs) = 1 /\ registryReqs = <<>>

AnyFailed == dResult.state = "err" \/ rResult.state = "err"

\* C8: once Discover or Register has returned an error the provider is not
\* serving and never was, main's next step ends the process with a non-zero
\* exit status, and no exit of such a start has status zero.
C8_ErrorExitsNonZero ==
    /\ [](AnyFailed =>
            /\ server # "listening" /\ served = 0 /\ accepted = 0
            /\ pc \in {"Discovering", "Registering", "Failed"}
            /\ (proc = "exited" => exitCode # 0))
    /\ [][(AnyFailed /\ pc' # pc)
            => (pc' = "Failed" /\ proc' = "exited" /\ exitCode' # 0
                /\ mainErr' \in {dResult, rResult} /\ mainErr'.state = "err")]_vars

C8_Witness ==
    /\ pc = "Failed" /\ proc = "exited" /\ exitCode = 1
    /\ rResult.state = "err" /\ rResult.code = "AlreadyExists"

\* C9: a SIGINT delivered while main is at Ready with the listener bound
\* makes the process exit with status zero, the socket released.
C9_CtrlCExitsZero ==
    [][(pc = "Ready" /\ server = "listening" /\ (SigIntHandled \/ SigIntDefault))
        => (proc' = "exited" /\ exitCode' = 0 /\ server' = "closed")]_vars

\* C10: register_entity sends at most one RegisterRequest, it has sent
\* exactly one once the connection is open, and that request carries the
\* whole list of descriptors it has to publish.
C10_OneCallAllDescriptors ==
    /\ Len(registryReqs) <= 1
    /\ ((rpc = "calling" \/ rResult.state = "ok") => Len(registryReqs) = 1)
    /\ \A i \in 1..Len(registryReqs) :
         /\ registryReqs[i].entity_access_info_list = EntityList(rArgs.provider_uri)
         /\ Len(registryReqs[i].entity_access_info_list) = 1

C10_Witness ==
    /\ rpc = "done" /\ rResult.state = "ok"
    /\ Len(registryReqs) = 1
    /\ registryReqs[1].entity_access_info_list[1].id = IS_TRAILER_CONNECTED_ID

\* every entity descriptor of every RegisterRequest sent so far
SentEntities ==
    UNION {{registryReqs[i].entity_access_info_list[j] :
                j \in 1..Len(registryReqs[i].entity_access_info_list)} :
           i \in 1..Len(registryReqs)}

\* C11: every entity descriptor sent to the registry has exactly one
\* endpoint; its uri is "http://" followed by the address the server binds,
\* its operations are exactly Get, and its context is the entity's id.
C11_EndpointOfDescriptor ==
    \A e \in SentEntities :
        /\ Len(e.endpoint_info_list) = 1
        /\ e.endpoint_info_list[1].uri = "http://" \o ListenAddr
        /\ e.endpoint_info_list[1].operations = <<"Get">>
        /\ e.endpoint_info_list[1].context = e.id
        /\ e.endpoint_info_list[1].protocol = GRPC_PROTOCOL

C11_Witness ==
    /\ Len(registryReqs) = 1
    /\ Cardinality(SentEntities) = 1
    /\ registryReqs[1].entity_access_info_list[1].endpoint_info_list[1].uri
         = "http://0.0.0.0:55000"

RegistryRejected == rReplies # <<>> /\ rReplies[1].code # "Ok"

\* C12: when the registry answers the register call with an error status,
\* register_entity returns an error with that status' code and message
\* unchanged, the provider is not at Ready and not serving, and main's next
\* step is Failed with that same status as the error it returns.
C12_RegistryStatusPropagated ==
    /\ [](RegistryRejected =>
            /\ rResult.state = "err"
            /\ rResult.code = rReplies[1].code
            /\ rResult.message = rReplies[1].message
            /\ pc \in {"Registering", "Failed"}
            /\ server # "listening")
    /\ [][(RegistryRejected /\ pc' # pc) =>
            /\ pc' = "Failed"
            /\ mainErr'.code = rReplies[1].code
            /\ mainErr'.message = rReplies[1].message]_vars

C12_Witness ==
    /\ RegistryRejected /\ rReplies[1].code = "AlreadyExists"
    /\ pc = "Failed" /\ mainErr.code = "AlreadyExists"
    /\ mainErr.message = "entity exists"

BrokerConnectFailed == dpc = "done" /\ brokerConns = <<>>
RegistryConnectFailed == rpc = "done" /\ registryConns = <<>>

\* C13: when the connection to the broker cannot be opened, Discover
\* returns an error carrying the transport error and no DiscoverRequest has
\* been sent; the same for Register and the registry; no request is ever
\* sent without an open connection.
C13_ConnectFailureSendsNothing ==
    /\ (BrokerConnectFailed =>
            /\ dResult.state = "err" /\ dResult.code = "Internal"
            /\ dResult.message \in TransportErrors
            /\ brokerReqs = <<>> /\ dReplies = <<>>)
    /\ (RegistryConnectFailed =>
            /\ rResult.state = "err" /\ rResult.code = "Internal"
            /\ rResult.message \in TransportErrors
            /\ registryReqs = <<>> /\ rReplies = <<>>)
    /\ Len(brokerReqs) <= Len(brokerConns)
    /\ Len(registryReqs) <= Len(registryConns)

C13_Witness ==
    /\ RegistryConnectFailed /\ ~BrokerConnectFailed
    /\ pc = "Failed" /\ mainErr.code = "Internal"
    /\ Len(brokerReqs) = 1 /\ registryReqs = <<>>

\* the text a message can put around the values it names
MessageFragments ==
    {"",
     "Did not find a service in Chariott with namespace '",
     "', name '",
     "' and version ",
     " that has communication kind '",
     " and communication_reference '",
     "''"}

\* message m names the namespace, name and version of args, in that order
CarriesIdentity(m, args) ==
    \E p1, p2, p3, p4 \in MessageFragments :
        m = p1 \o args.namespace \o p2 \o args.name \o p3 \o args.version \o p4

\* message m also names the expected communication kind and reference
CarriesExpected(m, args) ==
    \E p1, p2, p3, p4, p5, p6 \in MessageFragments :
        m = p1 \o args.namespace \o p2 \o args.name \o p3 \o args.version
               \o p4 \o args.communication_kind
               \o p5 \o args.communication_reference \o p6

\* C14: the error with which main ends after a failed Discover or Register
\* names the namespace, name and version that were looked up and, when a
\* service was found but rejected, the expected communication kind and
\* reference.
C14_ErrorCarriesIdentity ==
    (pc = "Failed" /\ AnyFailed) =>
        /\ CarriesIdentity(mainErr.message, dArgs)
        /\ (mainErr.message = MSG_NO_MATCH => CarriesExpected(mainErr.message, dArgs))

\* C15: the registry URI given to register_entity, and every connection it
\* opens, is the uri of the service the broker returned to this start's
\* Discover call, as Discover returned it; the provider URI given is
\* "http://" followed by the configured listen authority.
C15_RegisterUsesDiscoveredUri ==
    rpc # "idle" =>
        /\ ServiceReceived
        /\ dResult.state = "ok"
        /\ rArgs.invehicle_digital_twin_uri = dResult.value
        /\ rArgs.invehicle_digital_twin_uri = dReplies[1][1].uri
        /\ \A i \in 1..Len(registryConns) : registryConns[i] = dReplies[1][1].uri
        /\ rArgs.provider_uri = "http://" \o PROVIDER_AUTHORITY

C15_Witness ==
    /\ rpc = "calling" /\ ServiceReceived
    /\ dReplies[1][1].uri = "http://host:9000"
    /\ registryConns = <<"http://host:9000">>
    /\ rArgs.provider_uri = "http://0.0.0.0:55000"

\* Register has succeeded after Discover and the process has neither ended
\* nor finished serving: the bootstrap is entering Ready or is at Ready
ReadyReached ==
    /\ proc = "running" /\ BothSucceeded
    /\ pc \in {"Registering", "Ready"}

\* C16: once Register has succeeded, so that Ready is reached, the process
\* stops being there only by a step in which the interrupt signal is
\* delivered.
C16_ReadyUntilSignal ==
    [][(ReadyReached /\ ~ReadyReached') => (SigIntDefault \/ SigIntHandled)]_vars

\* C17: a Get has been answered, a connection accepted or the listener
\* bound only if register_entity has returned Ok, and the server future is
\* first driven, binding the address, only by the step of main that follows
\* register_entity's return of Ok.
C17_ServeOnlyAfterRegistered ==
    /\ []((served > 0 \/ accepted > 0 \/ server = "listening")
            => (rResult.state = "ok" /\ rpc = "done"
                /\ pc \notin {"Idle", "Discovering", "Registering"}))
    /\ [][(server # "listening" /\ server' = "listening")
            => (pc = "Registering" /\ rpc = "done" /\ rResult.state = "ok"
                /\ pc' = "Ready")]_vars

C17_Witness ==
    /\ served > 0 /\ server = "listening" /\ pc = "Ready"
    /\ rResult.state = "ok" /\ Len(registryReqs) = 1

\* main ended with the error of a failed bind
BindFailed == pc = "Failed" /\ mainErr.message \in BindErrors

\* C18: when binding the listen address has failed, no registration request
\* has been sent to the registry.
C18_NoRegistrationWithoutBind ==
    BindFailed => (registryReqs = <<>> /\ rReplies = <<>>)

Bootstrapping == proc = "running" /\ pc \in {"Idle", "Discovering", "Registering"}
AwaitingRemote == dpc \in {"connecting", "calling"} \/ rpc \in {"connecting", "calling"}

\* C19: when every remote operation eventually returns, a running bootstrap
\* eventually reaches Ready or Failed, unless the process is ended by a
\* signal first; and while a remote operation is awaited no step of main is
\* possible (there is no timeout), so only the remote answer ends the wait.
C19_BootstrapTerminates ==
    /\ Bootstrapping ~> (pc \in {"Ready", "Failed"} \/ proc = "signaled")
    /\ []((Bootstrapping /\ AwaitingRemote) =>
            ~ENABLED (MainStart \/ MainDiscoverErr \/ MainDiscoverOk
                      \/ MainRegisterErr \/ MainRegisterOk \/ MainRegisterOkBindErr))

C19_Witness ==
    /\ pc = "Ready" /\ proc = "running" /\ server = "listening"
    /\ dpc = "done" /\ rpc = "done" /\ accepted = 0
    /\ rReplies # <<>> /\ rReplies[1].code = "Ok"

====
